---- MODULE Spec2Model ----
(***************************************************************************)
(* Model of python/core/feature_extractor.py: the three feature extractors *)
(* (VmafFeatureExtractor, PsnrFeatureExtractor, MomentFeatureExtractor),   *)
(* their log parsers (_get_feature_scores), the score-key naming and the   *)
(* VMAF post-processing (_post_process_result).                            *)
(*                                                                         *)
(* A log file is a sequence of lines; a line is a sequence of characters   *)
(* (one-character strings).  The regular expressions of the source are     *)
(* modelled on those characters.  A Python float is modelled by an exact   *)
(* fraction <<n, d>> in lowest terms with d > 0; the IEEE results numpy    *)
(* gives for a division by zero are <<1, 0>> (inf), <<-1, 0>> (-inf) and   *)
(* <<0, 0>> (nan).  Rounding of float64 is not modelled.                   *)
(***************************************************************************)
EXTENDS Integers, Sequences, FiniteSets, TLC

VARIABLES
    variant,                   \* which extractor class runs: "VMAF", "PSNR", "Moment"
    log,                       \* the log file: a sequence of line descriptions (see Text)
    pos,                       \* the next line of log_file.readlines() to be processed
    atom_feature_scores_dict,  \* channel -> list of floats (psnr_scores for PSNR)
    atom_feature_idx_dict,     \* channel -> expected next index (counter for PSNR)
    ref_or_dis,                \* Moment: "None", "ref" or "dis"
    pc,                        \* where the invocation is
    error,                     \* the exception that ended the invocation, or "none"
    result_dict,               \* Result.result_dict: key -> list, NoResult before
    key_type,                  \* get_scores_key / get_score_key: cls.TYPE
    key_feature,               \*   the atom_feature argument
    key_out                    \*   the last key returned

vars == <<variant, log, pos, atom_feature_scores_dict, atom_feature_idx_dict,
          ref_or_dis, pc, error, result_dict, key_type, key_feature, key_out>>

(***************************************************************************)
(* Bounds of the model.                                                    *)
(***************************************************************************)
\* the largest frame count L of a generated well-formed log
MaxFrames == 2
\* the largest length of an exhaustively enumerated short log
MaxRawLen == 2
\* the largest frame count of a Result handed directly to _post_process_result
MaxPostFrames == 3
\* the largest length of a type or feature name given to get_scores_key
MaxNameLen == 2

(***************************************************************************)
(* Characters and numbers.                                                 *)
(***************************************************************************)
DigitSeq == <<"0", "1", "2", "3", "4", "5", "6", "7", "8", "9">>

Digits == {DigitSeq[i] : i \in 1..10}

\* the character class [0-9.-] of the value group
ValueChars == Digits \cup {".", "-"}

DigitVal(c) == (CHOOSE i \in 1..10 : DigitSeq[i] = c) - 1

RECURSIVE Pow10(_)
Pow10(k) == IF k = 0 THEN 1 ELSE 10 * Pow10(k - 1)

Abs(x) == IF x < 0 THEN -x ELSE x

RECURSIVE GCD(_, _)
GCD(a, b) == IF b = 0 THEN a ELSE GCD(b, a % b)

\* the fraction n/d (d > 0) in lowest terms
Rat(n, d) == LET g == GCD(Abs(n), d) IN <<n \div g, d \div g>>

IsFinite(x) == x[2] # 0

\* float + int, float - float, float * float on finite values
FAddInt(x, k) == Rat(x[1] + k * x[2], x[2])

FSub(x, y) == Rat(x[1] * y[2] - y[1] * x[2], x[2] * y[2])

FMul(x, y) == Rat(x[1] * y[1], x[2] * y[2])


(***************************************************************************)
(* The strings of the source, as character sequences.                      *)
(***************************************************************************)
Chars(s) ==
    CASE s = "vif" -> <<"v", "i", "f">>
      [] s = "adm" -> <<"a", "d", "m">>
      [] s = "ansnr" -> <<"a", "n", "s", "n", "r">>
      [] s = "motion" -> <<"m", "o", "t", "i", "o", "n">>
      [] s = "vif_num" -> <<"v", "i", "f", "_", "n", "u", "m">>
      [] s = "vif_den" -> <<"v", "i", "f", "_", "d", "e", "n">>
      [] s = "adm_num" -> <<"a", "d", "m", "_", "n", "u", "m">>
      [] s = "adm_den" -> <<"a", "d", "m", "_", "d", "e", "n">>
      [] s = "anpsnr" -> <<"a", "n", "p", "s", "n", "r">>
      [] s = "psnr" -> <<"p", "s", "n", "r">>
      [] s = "ref1st" -> <<"r", "e", "f", "1", "s", "t">>
      [] s = "ref2nd" -> <<"r", "e", "f", "2", "n", "d">>
      [] s = "refvar" -> <<"r", "e", "f", "v", "a", "r">>
      [] s = "dis1st" -> <<"d", "i", "s", "1", "s", "t">>
      [] s = "dis2nd" -> <<"d", "i", "s", "2", "n", "d">>
      [] s = "disvar" -> <<"d", "i", "s", "v", "a", "r">>
      [] s = "ref" -> <<"r", "e", "f">>
      [] s = "dis" -> <<"d", "i", "s">>
      [] s = "1st" -> <<"1", "s", "t">>
      [] s = "2nd" -> <<"2", "n", "d">>
      [] s = "VMAF_feature" -> <<"V", "M", "A", "F", "_", "f", "e", "a", "t", "u", "r", "e">>
      [] s = "PSNR_feature" -> <<"P", "S", "N", "R", "_", "f", "e", "a", "t", "u", "r", "e">>
      [] s = "Moment_feature" -> <<"M", "o", "m", "e", "n", "t", "_", "f", "e", "a", "t", "u", "r", "e">>
      [] s = "1stmoment" -> <<"1", "s", "t", "m", "o", "m", "e", "n", "t">>
      [] s = "2ndmoment" -> <<"2", "n", "d", "m", "o", "m", "e", "n", "t">>

\* TYPE of the three classes (lines 46, 140, 203)
TYPE(v) ==
    CASE v = "VMAF" -> "VMAF_feature"
      [] v = "PSNR" -> "PSNR_feature"
      [] v = "Moment" -> "Moment_feature"

\* ATOM_FEATURES of the three classes (lines 51-52, 143, 206)
ATOM_FEATURES(v) ==
    CASE v = "VMAF" -> <<"vif", "adm", "ansnr", "motion",
                         "vif_num", "vif_den", "adm_num", "adm_den", "anpsnr">>
      [] v = "PSNR" -> <<"psnr">>
      [] v = "Moment" -> <<"ref1st", "ref2nd", "refvar", "dis1st", "dis2nd", "disvar">>

Variants == {"VMAF", "PSNR", "Moment"}

Range(seq) == {seq[i] : i \in 1..Len(seq)}

ADM_CONSTANT == 1000

(***************************************************************************)
(* get_scores_key, get_score_key (lines 34-42), on character sequences.    *)
(***************************************************************************)
\* get_scores_key with the format "{type}{atom_feature}_scores"
get_scores_key_unseparated(type, atom_feature) ==
    type \o atom_feature \o <<"_", "s", "c", "o", "r", "e", "s">>

get_scores_key(type, atom_feature) ==
    type \o <<"_">> \o atom_feature \o <<"_", "s", "c", "o", "r", "e", "s">>

get_score_key(type, atom_feature) ==
    type \o <<"_">> \o atom_feature \o <<"_", "s", "c", "o", "r", "e">>

\* cls.get_scores_key(atom_feature) of the class of variant v
ScoresKey(v, atom_feature) == get_scores_key(Chars(TYPE(v)), Chars(atom_feature))

(***************************************************************************)
(* re.match, int and float.                                                *)
(***************************************************************************)
HasPrefix(line, p) == Len(line) >= Len(p) /\ SubSeq(line, 1, Len(p)) = p

\* the number of characters of line, from position k on, that lie in S (a greedy X+)
RECURSIVE Span(_, _, _)
Span(line, k, S) ==
    IF k <= Len(line) /\ line[k] \in S THEN 1 + Span(line, k + 1, S) ELSE 0

NoMatch == [ok |-> FALSE, group1 |-> <<>>, group2 |-> <<>>]

\* the pattern "{tag}: ([0-9]+) (X+)", X the characters of vchars, tried on line
\* after its first off characters: the two groups are greedy and nothing is
\* required after the second
MatchDataAt(tag, line, off, vchars) ==
    LET p == tag \o <<":", " ">>
        a == off + Len(p) + 1
        n == Span(line, a, Digits)
        b == a + n + 1
        m == Span(line, b, vchars)
    IN  IF /\ Len(line) >= off + Len(p)
           /\ SubSeq(line, off + 1, off + Len(p)) = p
           /\ n >= 1
           /\ a + n <= Len(line)
           /\ line[a + n] = " "
           /\ m >= 1
        THEN [ok |-> TRUE, group1 |-> SubSeq(line, a, a + n - 1),
                           group2 |-> SubSeq(line, b, b + m - 1)]
        ELSE NoMatch

\* the value group written ([0-9.]+): a negative value does not match
re_match_data_unsigned(tag, line) == MatchDataAt(tag, line, 0, Digits \cup {"."})

\* the pattern written with a leading " ?": a line that starts with a blank matches
re_match_data_blank(tag, line) ==
    MatchDataAt(tag, line, IF line # <<>> /\ line[1] = " " THEN 1 ELSE 0, ValueChars)

\* the pattern written "{tag}[^: ]*: ([0-9]+) ([0-9.-]+)": the tag need only begin
\* the word before the colon
re_match_data_prefix(tag, line) ==
    IF HasPrefix(line, tag)
    THEN MatchDataAt(<<>>, line,
                     Len(tag) + Span(line, Len(tag) + 1, Range(line) \ {":", " "}),
                     ValueChars)
    ELSE NoMatch

\* re.match("{tag}: ([0-9]+) ([0-9.-]+)", line): the pattern is tried at the start
\* of the line only
re_match_data(tag, line) == MatchDataAt(tag, line, 0, ValueChars)

\* re.match(r"=== ref: ===", line), re.match(r"=== dis: ===", line)
re_match_header(sec, line) ==
    HasPrefix(line, <<"=", "=", "=", " ">> \o Chars(sec) \o <<":", " ", "=", "=", "=">>)

\* int(mo.group(1)) on a non-empty string of digits
RECURSIVE int(_)
int(ds) ==
    IF ds = <<>> THEN 0
    ELSE 10 * int(SubSeq(ds, 1, Len(ds) - 1)) + DigitVal(ds[Len(ds)])

\* float(mo.group(2)) on a non-empty string over [0-9.-]: an optional leading "-",
\* digits with at most one ".", at least one digit; anything else is a ValueError
float(s) ==
    LET neg == s[1] = "-"
        body == IF neg THEN SubSeq(s, 2, Len(s)) ELSE s
        dots == {i \in 1..Len(body) : body[i] = "."}
        dot == IF dots = {} THEN Len(body) + 1 ELSE CHOOSE i \in dots : TRUE
        ip == SubSeq(body, 1, dot - 1)
        fp == SubSeq(body, dot + 1, Len(body))
        wellformed == /\ \A i \in 1..Len(body) : body[i] # "-"
                      /\ Cardinality(dots) <= 1
                      /\ Len(ip) + Len(fp) >= 1
        mag == int(ip) * Pow10(Len(fp)) + int(fp)
    IN  IF wellformed
        THEN [ok |-> TRUE, val |-> Rat(IF neg THEN -mag ELSE mag, Pow10(Len(fp)))]
        ELSE [ok |-> FALSE, val |-> <<0, 0>>]

(***************************************************************************)
(* The parse loops of _get_feature_scores.  st is the state of one parse:  *)
(* scores (atom_feature_scores_dict), idx (atom_feature_idx_dict), mode    *)
(* (ref_or_dis) and error (the exception raised, "none" while running).    *)
(***************************************************************************)
\* IndexedAppend without "assert cur_idx == idx"
IndexedAppendUnchecked(st, atom_feature, mo) ==
    LET f == float(mo.group2)
    IN  IF ~f.ok
        THEN [st EXCEPT !.error = "ValueError"]
        ELSE [st EXCEPT !.scores[atom_feature] = Append(@, f.val),
                        !.idx[atom_feature] = @ + 1]

\* IndexedAppend with one frame counter for all channels: the index is compared
\* with the smallest expected-next-index of all channels
IndexedAppendSharedCounter(st, atom_feature, mo) ==
    IF \E c \in DOMAIN st.idx : int(mo.group1) # st.idx[c] /\ \A d \in DOMAIN st.idx : st.idx[c] <= st.idx[d]
    THEN [st EXCEPT !.error = "IndexAssertion"]
    ELSE LET f == float(mo.group2)
         IN  IF ~f.ok
             THEN [st EXCEPT !.error = "ValueError"]
             ELSE [st EXCEPT !.scores[atom_feature] = Append(@, f.val),
                             !.idx[atom_feature] = @ + 1]

\* IndexedAppend with the assertion written "cur_idx <= idx"
IndexedAppendAtMost(st, atom_feature, mo) ==
    IF int(mo.group1) > st.idx[atom_feature]
    THEN [st EXCEPT !.error = "IndexAssertion"]
    ELSE LET f == float(mo.group2)
         IN  IF ~f.ok
             THEN [st EXCEPT !.error = "ValueError"]
             ELSE [st EXCEPT !.scores[atom_feature] = Append(@, f.val),
                             !.idx[atom_feature] = @ + 1]

\* lines 102-105 (VMAF), 184-187 (PSNR), 282-284 and 292-294 (Moment):
\* assert cur_idx == idx; scores.append(float(group(2))); idx += 1
IndexedAppend(st, atom_feature, mo) ==
    IF int(mo.group1) # st.idx[atom_feature]
    THEN [st EXCEPT !.error = "IndexAssertion"]
    ELSE LET f == float(mo.group2)
         IN  IF ~f.ok
             THEN [st EXCEPT !.error = "ValueError"]
             ELSE [st EXCEPT !.scores[atom_feature] = Append(@, f.val),
                             !.idx[atom_feature] = @ + 1]

\* lines 99-106: one pass of the inner loop, for one atom feature
VmafFeatureStep(st, atom_feature, line) ==
    IF st.error # "none" THEN st
    ELSE LET mo == re_match_data(Chars(atom_feature), line)
         IN  IF mo.ok THEN IndexedAppend(st, atom_feature, mo) ELSE st

\* lines 98-106: the inner loop over ATOM_FEATURES[k..]; the "continue" of line 106
\* goes on with the next atom feature
RECURSIVE VmafFeatureLoop(_, _, _)
VmafFeatureLoop(st, k, line) ==
    IF k > Len(ATOM_FEATURES("VMAF")) THEN st
    ELSE VmafFeatureLoop(VmafFeatureStep(st, ATOM_FEATURES("VMAF")[k], line), k + 1, line)

VmafLine(st, line) == VmafFeatureLoop(st, 1, line)

\* lines 182-187
PsnrLine(st, line) ==
    LET mo == re_match_data(Chars("psnr"), line)
    IN  IF mo.ok THEN IndexedAppend(st, "psnr", mo) ELSE st

\* ref_or_dis + '1st', ref_or_dis + '2nd' (lines 281, 291)
Concat(mode, ord) ==
    CASE mode = "ref" /\ ord = "1st" -> "ref1st"
      [] mode = "ref" /\ ord = "2nd" -> "ref2nd"
      [] mode = "dis" /\ ord = "1st" -> "dis1st"
      [] mode = "dis" /\ ord = "2nd" -> "dis2nd"

\* MomentAppend without "assert ref_or_dis is not None", None read as 'ref'
MomentAppendDefaultRef(st, ord, mo) ==
    IndexedAppend(st, Concat(IF st.mode = "None" THEN "ref" ELSE st.mode, ord), mo)

\* lines 279-284 and 289-294: assert ref_or_dis is not None, then the indexed append
MomentAppend(st, ord, mo) ==
    IF st.mode = "None"
    THEN [st EXCEPT !.error = "ModeAssertion"]
    ELSE IndexedAppend(st, Concat(st.mode, ord), mo)

\* MomentLine with the counters of a section set back to 0 by its header
MomentLineHeaderResets(st, line) ==
    IF re_match_header("ref", line)
    THEN [st EXCEPT !.mode = "ref", !.idx["ref1st"] = 0, !.idx["ref2nd"] = 0]
    ELSE IF re_match_header("dis", line)
    THEN [st EXCEPT !.mode = "dis", !.idx["dis1st"] = 0, !.idx["dis2nd"] = 0]
    ELSE LET mo1 == re_match_data(Chars("1stmoment"), line)
             mo2 == re_match_data(Chars("2ndmoment"), line)
         IN  IF mo1.ok THEN MomentAppend(st, "1st", mo1)
             ELSE IF mo2.ok THEN MomentAppend(st, "2nd", mo2)
             ELSE st

\* MomentLine with the second header test setting 'ref' like the first
MomentLineOneSection(st, line) ==
    IF re_match_header("ref", line) THEN [st EXCEPT !.mode = "ref"]
    ELSE IF re_match_header("dis", line) THEN [st EXCEPT !.mode = "ref"]
    ELSE LET mo1 == re_match_data(Chars("1stmoment"), line)
             mo2 == re_match_data(Chars("2ndmoment"), line)
         IN  IF mo1.ok THEN MomentAppend(st, "1st", mo1)
             ELSE IF mo2.ok THEN MomentAppend(st, "2nd", mo2)
             ELSE st

\* lines 267-295: the body of the loop, for one line
MomentLine(st, line) ==
    IF re_match_header("ref", line) THEN [st EXCEPT !.mode = "ref"]
    ELSE IF re_match_header("dis", line) THEN [st EXCEPT !.mode = "dis"]
    ELSE LET mo1 == re_match_data(Chars("1stmoment"), line)
             mo2 == re_match_data(Chars("2ndmoment"), line)
         IN  IF mo1.ok THEN MomentAppend(st, "1st", mo1)
             ELSE IF mo2.ok THEN MomentAppend(st, "2nd", mo2)
             ELSE st

LineStep(v, st, line) ==
    CASE v = "VMAF" -> VmafLine(st, line)
      [] v = "PSNR" -> PsnrLine(st, line)
      [] v = "Moment" -> MomentLine(st, line)

\* lines 90-94, 178-179, 257-264: the dictionaries before the first line
InitParse(v) ==
    [scores |-> [f \in Range(ATOM_FEATURES(v)) |-> <<>>],
     idx    |-> [f \in Range(ATOM_FEATURES(v)) |-> 0],
     mode   |-> "None",
     error  |-> "none"]

(***************************************************************************)
(* After the loop: the variances (Moment), the length assertions and the   *)
(* dictionary that is returned.                                            *)
(***************************************************************************)
Min(a, b) == IF a <= b THEN a ELSE b

\* line 298: get_var = lambda (m1, m2): m2 - m1 * m1
get_var(m1, m2) == FSub(m2, FMul(m1, m1))

\* map(get_var, zip(first, second)): zip stops at the shorter list
MapGetVarZip(first, second) ==
    [i \in 1..Min(Len(first), Len(second)) |-> get_var(first[i], second[i])]

\* MomentVariances with disvar computed from the ref lists
MomentVariancesFromRef(scores) ==
    [scores EXCEPT !["refvar"] = MapGetVarZip(scores["ref1st"], scores["ref2nd"]),
                   !["disvar"] = MapGetVarZip(scores["ref1st"], scores["ref2nd"])]

\* lines 298-304
MomentVariances(scores) ==
    [scores EXCEPT !["refvar"] = MapGetVarZip(scores["ref1st"], scores["ref2nd"]),
                   !["disvar"] = MapGetVarZip(scores["dis1st"], scores["dis2nd"])]

\* AssertLengths without the loop over ATOM_FEATURES[1:]
AssertNonEmptyOnly(v, scores) ==
    IF Len(scores[ATOM_FEATURES(v)[1]]) = 0 THEN "EmptyAssertion" ELSE "none"

\* AssertLengths with the loop over ATOM_FEATURES[1:-1]
AssertLengthsSkipLast(v, scores) ==
    LET feats == ATOM_FEATURES(v)
        len_score == Len(scores[feats[1]])
    IN  IF len_score = 0 THEN "EmptyAssertion"
        ELSE IF \E k \in 2..(Len(feats) - 1) : len_score # Len(scores[feats[k]])
             THEN "LengthAssertion"
             ELSE "none"

\* AssertLengths with len_score taken from the last declared channel
AssertLengthsFromLast(v, scores) ==
    LET feats == ATOM_FEATURES(v)
        len_score == Len(scores[feats[Len(feats)]])
    IN  IF len_score = 0 THEN "EmptyAssertion"
        ELSE IF \E k \in 1..(Len(feats) - 1) : len_score # Len(scores[feats[k]])
             THEN "LengthAssertion"
             ELSE "none"

\* AssertLengths with the comparison of the lengths made before the test for an
\* empty first channel
AssertLengthsMismatchFirst(v, scores) ==
    LET feats == ATOM_FEATURES(v)
        len_score == Len(scores[feats[1]])
    IN  IF \E k \in 2..Len(feats) : len_score # Len(scores[feats[k]])
        THEN "LengthAssertion"
        ELSE IF len_score = 0 THEN "EmptyAssertion" ELSE "none"

\* lines 108-112, 189 and 193, 307-310: the exception of the length assertions,
\* "none" when they all hold
AssertLengths(v, scores) ==
    LET feats == ATOM_FEATURES(v)
        len_score == Len(scores[feats[1]])
    IN  IF len_score = 0 THEN "EmptyAssertion"
        ELSE IF \E k \in 2..Len(feats) : len_score # Len(scores[feats[k]])
             THEN "LengthAssertion"
             ELSE "none"

NoResult == [k \in {} |-> <<>>]

\* d[key] = value on a Python dict
DictSet(d, key, value) ==
    [k \in DOMAIN d \cup {key} |-> IF k = key THEN value ELSE d[k]]

\* lines 114-118, 191-196, 312-316: feature_result, filled for ATOM_FEATURES[k..]
RECURSIVE FeatureResult(_, _, _, _)
FeatureResult(v, scores, k, d) ==
    IF k > Len(ATOM_FEATURES(v)) THEN d
    ELSE LET atom_feature == ATOM_FEATURES(v)[k]
         IN  FeatureResult(v, scores, k + 1,
                           DictSet(d, ScoresKey(v, atom_feature), scores[atom_feature]))

(***************************************************************************)
(* VmafFeatureExtractor._post_process_result (lines 122-136).              *)
(***************************************************************************)
\* numpy's float division: x / 0 is inf, -inf or nan (a warning, no exception)
np_divide(x, y) ==
    IF y[1] = 0
    THEN (IF x[1] > 0 THEN <<1, 0>> ELSE IF x[1] < 0 THEN <<-1, 0>> ELSE <<0, 0>>)
    ELSE IF y[1] > 0 THEN Rat(x[1] * y[2], x[2] * y[1])
                     ELSE Rat(-(x[1] * y[2]), x[2] * (-y[1]))

\* AdmRatio with the constant added to the numerator only
AdmRatioNumOnly(num, den) ==
    [i \in 1..Len(num) |-> np_divide(FAddInt(num[i], ADM_CONSTANT), den[i])]

\* lines 131-134, on two lists of one length
AdmRatio(num, den) ==
    [i \in 1..Len(num) |->
        np_divide(FAddInt(num[i], ADM_CONSTANT), FAddInt(den[i], ADM_CONSTANT))]

\* _post_process_result storing the ratio under the key of adm_num
_post_process_result_num_key(d) ==
    DictSet(d, ScoresKey("VMAF", "adm_num"),
            AdmRatio(d[ScoresKey("VMAF", "adm_num")], d[ScoresKey("VMAF", "adm_den")]))

_post_process_result(d) ==
    DictSet(d, ScoresKey("VMAF", "adm"),
            AdmRatio(d[ScoresKey("VMAF", "adm_num")], d[ScoresKey("VMAF", "adm_den")]))

(***************************************************************************)
(* The log file.  A line is described by a record and written as text:     *)
(*   data    "<tag>: <idx> <val>", val a number of tenths written with one  *)
(*           fractional digit (20 is "2.0", -10000 is "-1000.0");            *)
(*   lit     "<tag>: <idx> <text>", the value field given as it stands;     *)
(*   header  "=== ref: ===" or "=== dis: ===" (written by lines 222, 237);   *)
(*   junk    any other text.                                               *)
(***************************************************************************)
Data(tag, i, val) == [kind |-> "data", tag |-> tag, idx |-> i, val |-> val, text |-> <<>>]

Lit(tag, i, text) == [kind |-> "lit", tag |-> tag, idx |-> i, val |-> 0, text |-> text]

Header(sec) == [kind |-> "header", tag |-> sec, idx |-> 0, val |-> 0, text |-> <<>>]

Junk(text) == [kind |-> "junk", tag |-> "", idx |-> 0, val |-> 0, text |-> text]

RECURSIVE IntText(_)
IntText(n) ==
    IF n < 10 THEN <<DigitSeq[n + 1]>>
    ELSE IntText(n \div 10) \o <<DigitSeq[(n % 10) + 1]>>

\* a number of tenths as a decimal literal with one fractional digit
Fmt(val) ==
    (IF val < 0 THEN <<"-">> ELSE <<>>)
        \o IntText(Abs(val) \div 10) \o <<".">> \o <<DigitSeq[(Abs(val) % 10) + 1]>>

Text(l) ==
    CASE l.kind = "data" ->
            Chars(l.tag) \o <<":", " ">> \o IntText(l.idx) \o <<" ">> \o Fmt(l.val)
      [] l.kind = "lit" ->
            Chars(l.tag) \o <<":", " ">> \o IntText(l.idx) \o <<" ">> \o l.text
      [] l.kind = "header" ->
            <<"=", "=", "=", " ">> \o Chars(l.tag) \o <<":", " ", "=", "=", "=">>
      [] l.kind = "junk" -> l.text

\* lines that match no pattern of the variant
JunkLines(v) ==
    CASE v = "VMAF" ->
    {Junk(<<>>),
     Junk(<<"v", "m", "a", "f", " ", "a", "l", "l", " ", "y", "u", "v", " ", ">", ">", " ", "l", "o", "g">>),
     Junk(<<" ", "v", "i", "f", ":", " ", "0", " ", "1", ".", "0">>),
     Junk(<<"v", "i", "f", ":", "0", " ", "1", ".", "0">>),
     Junk(<<"v", "i", "f", ":", " ", "x", " ", "1", ".", "0">>),
     Junk(<<"V", "I", "F", ":", " ", "0", " ", "1", ".", "0">>),
     Junk(<<"v", "i", "f", ":", " ", "0", " ", " ", "1", ".", "0">>),
     Junk(<<"v", "i", "f", "_", ":", " ", "0", " ", "1", ".", "0">>),
     Junk(<<"p", "s", "n", "r", ":", " ", "0", " ", "3", "0", ".", "0">>),
     Junk(<<"=", "=", "=", " ", "r", "e", "f", ":", " ", "=", "=", "=">>)}
      [] v = "PSNR" ->
    {Junk(<<>>),
     Junk(<<"v", "m", "a", "f", " ", "a", "l", "l", " ", "y", "u", "v", " ", ">", ">", " ", "l", "o", "g">>),
     Junk(<<" ", "p", "s", "n", "r", ":", " ", "0", " ", "3", "0", ".", "0">>),
     Junk(<<"p", "s", "n", "r", " ", "0", " ", "3", "0", ".", "0">>),
     Junk(<<"p", "s", "n", "r", "_", "y", ":", " ", "0", " ", "3", "0", ".", "0">>),
     Junk(<<"P", "S", "N", "R", ":", " ", "0", " ", "3", "0", ".", "0">>),
     Junk(<<"p", "s", "n", "r", ":", " ", "0", " ", "x">>),
     Junk(<<"v", "i", "f", ":", " ", "0", " ", "1", ".", "5">>)}
      [] v = "Moment" ->
    {Junk(<<>>),
     Junk(<<"v", "m", "a", "f", " ", "a", "l", "l", " ", "y", "u", "v", " ", ">", ">", " ", "l", "o", "g">>),
     Junk(<<" ", "1", "s", "t", "m", "o", "m", "e", "n", "t", ":", " ", "0", " ", "2", ".", "0">>),
     Junk(<<"1", "s", "t", "m", "o", "m", "e", "n", "t", " ", "0", " ", "2", ".", "0">>),
     Junk(<<"3", "r", "d", "m", "o", "m", "e", "n", "t", ":", " ", "0", " ", "2", ".", "0">>),
     Junk(<<"=", "=", "=", " ", "r", "e", "f", " ", "=", "=", "=">>),
     Junk(<<"=", "=", " ", "r", "e", "f", ":", " ", "=", "=", "=">>),
     Junk(<<"=", "=", "=", " ", "R", "E", "F", ":", " ", "=", "=", "=">>),
     Junk(<<"p", "s", "n", "r", ":", " ", "0", " ", "3", "0", ".", "0">>)}

\* value fields as they may stand in a log: literals without a fraction or without
\* an integer part, and strings over [0-9.-] that are no literal
LitTexts == {<<"-", "1", "0", "0", "0">>,
             <<"7">>,
             <<".", "5">>,
             <<"1", ".", ".", "2">>,
             <<"-">>,
             <<"3", "-", "1">>}

\* the tags of the data lines of each variant, in the order of its raw channels
DataTags(v) ==
    CASE v = "VMAF" -> ATOM_FEATURES("VMAF")
      [] v = "PSNR" -> <<"psnr">>
      [] v = "Moment" -> <<"1stmoment", "2ndmoment", "1stmoment", "2ndmoment">>

\* the channels read from the log (refvar and disvar are computed)
RawChannels(v) ==
    CASE v = "VMAF" -> ATOM_FEATURES("VMAF")
      [] v = "PSNR" -> <<"psnr">>
      [] v = "Moment" -> <<"ref1st", "ref2nd", "dis1st", "dis2nd">>

(***************************************************************************)
(* The logs the model reads: well-formed logs of 1..MaxFrames frames, each *)
(* of them with one edit (a line deleted, doubled, moved, renumbered, its  *)
(* value field replaced, a line inserted), and every log of at most        *)
(* MaxRawLen lines over a small set of lines.                              *)
(***************************************************************************)
\* the value of raw channel k at frame i (from 0) in the two value plans
PlanVal(plan, v, k, i) ==
    CASE plan = "example" /\ v = "VMAF" /\ k = 7 -> 100 * i
      [] plan = "example" /\ v = "VMAF" /\ k = 8 -> 10000
      [] plan = "example" /\ v = "Moment" -> <<20, 50, 30, 100>>[k] + 10 * i
      [] plan = "negative" /\ v = "VMAF" /\ k = 7 ->
            (IF i = 0 THEN -10000 ELSE IF i = 1 THEN 5 ELSE -20000)
      [] plan = "negative" /\ v = "VMAF" /\ k = 8 -> -10000
      [] plan = "negative" -> -(10 * k + i + 5)
      [] OTHER -> 10 * k + i + 5

PsnrVals == {0, 305, -15}

RECURSIVE SeqsOfLen(_, _)
SeqsOfLen(S, n) ==
    IF n = 0 THEN {<<>>}
    ELSE {Append(q, x) : q \in SeqsOfLen(S, n - 1), x \in S}

SeqsUpTo(S, n) == UNION {SeqsOfLen(S, m) : m \in 0..n}

\* value tables: raw channel number -> the values of its frames
ValueTables(v) ==
    IF v = "PSNR"
    THEN {<<q>> : q \in SeqsUpTo(PsnrVals, MaxFrames) \ {<<>>}}
    ELSE {[k \in 1..Len(RawChannels(v)) |-> [i \in 1..L |-> PlanVal(plan, v, k, i - 1)]] :
              plan \in {"example", "negative"}, L \in 1..MaxFrames}

Layouts(v) == IF v = "PSNR" THEN {"frames"} ELSE {"frames", "channels"}

WellFormed(v, layout, vt) ==
    LET L == Len(vt[1])
        tags == DataTags(v)
    IN  CASE v = "PSNR" -> [j \in 1..L |-> Data("psnr", j - 1, vt[1][j])]
          [] v = "VMAF" /\ layout = "frames" ->
                [j \in 1..(9 * L) |->
                    LET i == (j - 1) \div 9
                        k == ((j - 1) % 9) + 1
                    IN  Data(tags[k], i, vt[k][i + 1])]
          [] v = "VMAF" /\ layout = "channels" ->
                [j \in 1..(9 * L) |->
                    LET k == ((j - 1) \div L) + 1
                        i == (j - 1) % L
                    IN  Data(tags[k], i, vt[k][i + 1])]
          [] v = "Moment" /\ layout = "frames" ->
                [j \in 1..(6 * L) |->
                    LET i == (j - 1) \div 6
                        r == (j - 1) % 6
                    IN  CASE r = 0 -> Header("ref")
                          [] r = 3 -> Header("dis")
                          [] r \in {1, 2} -> Data(tags[r], i, vt[r][i + 1])
                          [] r \in {4, 5} -> Data(tags[r - 1], i, vt[r - 1][i + 1])]
          [] v = "Moment" /\ layout = "channels" ->
                LET sec(k0) == [j \in 1..(2 * L) |->
                                   LET i == (j - 1) \div 2
                                       k == k0 + ((j - 1) % 2)
                                   IN  Data(tags[k], i, vt[k][i + 1])]
                IN  <<Header("ref")>> \o sec(1) \o <<Header("dis")>> \o sec(3)

InsertAt(lg, p, l) == SubSeq(lg, 1, p) \o <<l>> \o SubSeq(lg, p + 1, Len(lg))

DeleteAt(lg, p) == SubSeq(lg, 1, p - 1) \o SubSeq(lg, p + 1, Len(lg))

SwapAt(lg, p) == [j \in 1..Len(lg) |-> IF j = p THEN lg[p + 1] ELSE IF j = p + 1 THEN lg[p] ELSE lg[j]]

IsData(l) == l.kind \in {"data", "lit"}

\* lines inserted into a log: junk, and the section headers
InsertLines(v) ==
    JunkLines(v) \cup (IF v = "Moment" THEN {Header("ref"), Header("dis")} ELSE {})

Edits(v, b) ==
    {b}
    \cup {DeleteAt(b, p) : p \in 1..Len(b)}
    \cup {InsertAt(b, p, b[p]) : p \in 1..Len(b)}
    \cup {SwapAt(b, p) : p \in 1..(Len(b) - 1)}
    \cup {InsertAt(b, p, l) : p \in 0..Len(b), l \in InsertLines(v)}
    \cup {[b EXCEPT ![p].idx = i] : p \in {q \in 1..Len(b) : IsData(b[q])}, i \in 0..MaxFrames}
    \cup {[b EXCEPT ![p] = Lit(b[p].tag, b[p].idx, t)] :
              p \in {q \in 1..Len(b) : IsData(b[q])}, t \in LitTexts}

\* the lines of the short logs
RawLines(v) ==
    InsertLines(v)
    \cup {Data(DataTags(v)[k], i, PlanVal("example", v, k, i)) :
              k \in 1..Min(2, Len(DataTags(v))), i \in 0..1}
    \cup {Lit(DataTags(v)[1], 0, t) : t \in LitTexts}

Logs(v) ==
    UNION {Edits(v, WellFormed(v, layout, vt)) : layout \in Layouts(v), vt \in ValueTables(v)}
    \cup SeqsUpTo(RawLines(v), MaxRawLen)

(***************************************************************************)
(* One invocation: _read_result calls _get_feature_scores, which reads the *)
(* log line by line, computes the variances (Moment), asserts the lengths  *)
(* and returns the dictionary the Result is made of; the VMAF Result then  *)
(* goes through _post_process_result.                                      *)
(***************************************************************************)
\* the parse state held by the variables
Cur ==
    [scores |-> atom_feature_scores_dict,
     idx    |-> atom_feature_idx_dict,
     mode   |-> ref_or_dis,
     error  |-> error]

KeyVars == <<key_type, key_feature, key_out>>

Init ==
    /\ variant \in Variants
    /\ log \in Logs(variant)
    /\ pos = 1
    /\ atom_feature_scores_dict = InitParse(variant).scores
    /\ atom_feature_idx_dict = InitParse(variant).idx
    /\ ref_or_dis = "None"
    /\ pc = "parse"
    /\ error = "none"
    /\ result_dict = NoResult
    /\ key_type = <<>>
    /\ key_feature = <<>>
    /\ key_out = <<>>

\* one pass of the loop over log_file.readlines(); an exception ends the invocation
ParseLine(v) ==
    /\ pc = "parse"
    /\ variant = v
    /\ pos <= Len(log)
    /\ LET st == LineStep(v, Cur, Text(log[pos]))
       IN  /\ atom_feature_scores_dict' = st.scores
           /\ atom_feature_idx_dict' = st.idx
           /\ ref_or_dis' = st.mode
           /\ error' = st.error
           /\ pc' = IF st.error = "none" THEN "parse" ELSE "failed"
           /\ pos' = IF st.error = "none" THEN pos + 1 ELSE pos
    /\ UNCHANGED <<variant, log, result_dict, KeyVars>>

VmafParseLine == ParseLine("VMAF")

PsnrParseLine == ParseLine("PSNR")

MomentParseLine == ParseLine("Moment")

\* lines 297-304, after the last line
MomentVariance ==
    /\ pc = "parse"
    /\ variant = "Moment"
    /\ pos > Len(log)
    /\ atom_feature_scores_dict' = MomentVariances(atom_feature_scores_dict)
    /\ pc' = "lengths"
    /\ UNCHANGED <<variant, log, pos, atom_feature_idx_dict, ref_or_dis, error,
                   result_dict, KeyVars>>

\* the length assertions and the returned dictionary, which _read_result (lines
\* 29-32) puts into the Result
Assemble(v) ==
    /\ variant = v
    /\ LET err == AssertLengths(v, atom_feature_scores_dict)
       IN  /\ error' = err
           /\ pc' = IF err = "none" THEN "returned" ELSE "failed"
           /\ result_dict' = IF err = "none"
                             THEN FeatureResult(v, atom_feature_scores_dict, 1, NoResult)
                             ELSE NoResult
    /\ UNCHANGED <<variant, log, pos, atom_feature_scores_dict, atom_feature_idx_dict,
                   ref_or_dis, KeyVars>>

\* lines 108-120
VmafAssemble == pc = "parse" /\ pos > Len(log) /\ Assemble("VMAF")

\* lines 189-198
PsnrAssemble == pc = "parse" /\ pos > Len(log) /\ Assemble("PSNR")

\* lines 306-318
MomentAssemble == pc = "lengths" /\ Assemble("Moment")

\* lines 122-136, on the Result of _read_result
PostProcessResult ==
    /\ pc = "returned"
    /\ variant = "VMAF"
    /\ result_dict' = _post_process_result(result_dict)
    /\ pc' = "done"
    /\ UNCHANGED <<variant, log, pos, atom_feature_scores_dict, atom_feature_idx_dict,
                   ref_or_dis, error, KeyVars>>

Next ==
    \/ VmafParseLine
    \/ PsnrParseLine
    \/ MomentParseLine
    \/ MomentVariance
    \/ VmafAssemble
    \/ PsnrAssemble
    \/ MomentAssemble
    \/ PostProcessResult

Spec == Init /\ [][Next]_vars

\* the invocation has ended
Final ==
    \/ pc = "failed"
    \/ pc = "done"
    \/ pc = "returned" /\ variant # "VMAF"

(***************************************************************************)
(* The whole invocation on a log, as one function: what the actions above  *)
(* compute step by step.                                                   *)
(***************************************************************************)
\* the loop from line k on: the parse state and the line it stopped at (st2 is the
\* state after line k)
RECURSIVE ParseFrom(_, _, _, _)
ParseFrom(v, st, lg, k) ==
    IF k > Len(lg) THEN [st |-> st, at |-> k]
    ELSE CHOOSE r \in {IF st2.error # "none" THEN [st |-> st2, at |-> k]
                       ELSE ParseFrom(v, st2, lg, k + 1) :
                           st2 \in {LineStep(v, st, Text(lg[k]))}} : TRUE

Outcome(v, lg) ==
    LET r == ParseFrom(v, InitParse(v), lg, 1)
        scores == IF v = "Moment" THEN MomentVariances(r.st.scores) ELSE r.st.scores
        err == AssertLengths(v, scores)
        d == FeatureResult(v, scores, 1, NoResult)
    IN  IF r.st.error # "none" THEN [error |-> r.st.error, at |-> r.at, result |-> NoResult]
        ELSE IF err # "none" THEN [error |-> err, at |-> r.at, result |-> NoResult]
        ELSE [error |-> "none", at |-> r.at,
              result |-> IF v = "VMAF" THEN _post_process_result(d) ELSE d]

(***************************************************************************)
(* What a log says, read from the line descriptions and not from the text: *)
(* the channel a line belongs to, the index it carries and the value it    *)
(* denotes.  The properties below compare the parser with this reading.    *)
(***************************************************************************)
\* the section header in force at line p of a Moment log ("None" before the first)
RECURSIVE SectionAt(_, _)
SectionAt(lg, p) ==
    IF p <= 1 THEN "None"
    ELSE IF lg[p - 1].kind = "header" THEN lg[p - 1].tag
    ELSE SectionAt(lg, p - 1)

\* the channel line p is attributed to, "" when it is attributed to none
LineChannel(v, lg, p) ==
    IF ~IsData(lg[p]) THEN ""
    ELSE IF v # "Moment" THEN lg[p].tag
    ELSE IF SectionAt(lg, p) = "None" THEN ""
    ELSE Concat(SectionAt(lg, p), IF lg[p].tag = "1stmoment" THEN "1st" ELSE "2nd")

\* the first n lines, each with the channel it is attributed to
ReadLines(v, lg, n) == [p \in 1..n |-> [line |-> lg[p], chan |-> LineChannel(v, lg, p)]]

\* the lines of channel c among the first n lines, in file order
ChannelLines(v, lg, c, n) == SelectSeq(ReadLines(v, lg, n), LAMBDA e : e.chan = c)

\* the index line p should carry: the number of earlier lines of its channel
ExpectedIndex(v, lg, p) ==
    Cardinality({q \in 1..(p - 1) : LineChannel(v, lg, q) = LineChannel(v, lg, p)})

BadIndexAt(v, lg, p) ==
    LineChannel(v, lg, p) # "" /\ lg[p].idx # ExpectedIndex(v, lg, p)

\* the lines p with BadIndexAt(v, lg, p)
BadIndexLines(v, lg) ==
    LET read == ReadLines(v, lg, Len(lg))
    IN  {p \in 1..Len(lg) :
            /\ read[p].chan # ""
            /\ lg[p].idx # Cardinality({q \in 1..(p - 1) : read[q].chan = read[p].chan})}

SetMin(S) == CHOOSE x \in S : \A y \in S : x <= y

\* the value a line denotes
Denote(l) ==
    CASE l.kind = "data" -> Rat(l.val, 10)
      [] l.text = <<"-", "1", "0", "0", "0">> -> <<-1000, 1>>
      [] l.text = <<"7">> -> <<7, 1>>
      [] l.text = <<".", "5">> -> <<1, 2>>

\* the values of channel c on the first n lines
ChannelValues(v, lg, c, n) ==
    LET ls == ChannelLines(v, lg, c, n)
    IN  [i \in 1..Len(ls) |-> Denote(ls[i].line)]

(***************************************************************************)
(* C1: index continuity.                                                   *)
(***************************************************************************)
\* C1 as stated: whenever the indices on the lines of some channel are not exactly
\* 0, 1, ..., L-1 in file order, the invocation ends with the index assertion, at
\* the first line whose index differs from the expected next index of its channel,
\* and no Result is returned.
C1_IndexContinuityAsStated ==
    (Final /\ BadIndexLines(variant, log) # {}) =>
        /\ pc = "failed"
        /\ error = "IndexAssertion"
        /\ pos = SetMin(BadIndexLines(variant, log))
        /\ result_dict = NoResult

\* C1 amended: whenever the indices on the lines of some channel are not exactly
\* 0, 1, ..., L-1, no Result is returned and the parse never gets past the first
\* line whose index differs: the invocation fails there with the index assertion,
\* unless an earlier line has ended it with the mode assertion (a Moment data line
\* before any section header) or with the ValueError of float().
C1_IndexContinuity ==
    LET bad == BadIndexLines(variant, log)
    IN  bad # {} =>
            LET first == SetMin(bad)
            IN  /\ result_dict = NoResult
                /\ pos <= first
                /\ pc \in {"parse", "failed"}
                /\ Final =>
                    \/ pos = first /\ error = "IndexAssertion"
                    \/ pos < first /\ error \in {"ModeAssertion", "ValueError"}

\* the index assertion has fired on a line that is neither the first line of the
\* log nor the first line of its channel
C1_Witness ==
    /\ pc = "failed"
    /\ error = "IndexAssertion"
    /\ BadIndexLines(variant, log) # {}
    /\ pos = SetMin(BadIndexLines(variant, log))
    /\ ExpectedIndex(variant, log, pos) >= 1

(***************************************************************************)
(* C2: the length invariant.                                               *)
(***************************************************************************)
\* one declared channel is empty and another is not
MixedEmpty(scores) ==
    \E c1, c2 \in DOMAIN scores : scores[c1] = <<>> /\ scores[c2] # <<>>

\* C2: every Result, after _get_feature_scores and after the VMAF post-processing,
\* holds one sequence per declared channel, all of one length L > 0; and an
\* invocation whose dictionary, when the lengths are asserted, has one declared
\* channel empty and another non-empty fails and produces no Result.
C2_LengthInvariant ==
    /\ result_dict # NoResult =>
        /\ pc \in {"returned", "done"}
        /\ Cardinality(DOMAIN result_dict) = Len(ATOM_FEATURES(variant))
        /\ \E L \in 1..Len(log) : \A k \in DOMAIN result_dict : Len(result_dict[k]) = L
    /\ pc \in {"returned", "done"} =>
        /\ result_dict # NoResult
        /\ ~MixedEmpty(atom_feature_scores_dict)
    /\ (Final /\ MixedEmpty(atom_feature_scores_dict)) =>
        pc = "failed" /\ result_dict = NoResult

\* the length assertion has refused a dictionary with an empty and a non-empty channel
C2_Witness ==
    /\ pc = "failed"
    /\ error = "LengthAssertion"
    /\ MixedEmpty(atom_feature_scores_dict)
    /\ atom_feature_scores_dict[ATOM_FEATURES(variant)[1]] # <<>>

(***************************************************************************)
(* C3: round trip.                                                         *)
(***************************************************************************)
\* the log holds nothing but well-formed indexed lines (and, for Moment, section
\* headers): every data line belongs to a channel, and the lines of every raw
\* channel carry the indices 0, 1, ..., L-1 in order, for one L >= 1
WellFormedLog(v, lg) ==
    /\ \A p \in 1..Len(lg) :
          \/ lg[p].kind = "data" /\ LineChannel(v, lg, p) # ""
          \/ lg[p].kind = "header" /\ v = "Moment"
    /\ BadIndexLines(v, lg) = {}
    /\ \E L \in 1..Len(lg) :
          \A c \in Range(RawChannels(v)) : Len(ChannelLines(v, lg, c, Len(lg))) = L

\* C3: parsing a log of well-formed indexed lines "<tag>: i V[i]", i = 0..L-1, for
\* every raw channel, returns a dictionary that holds, under the score key of each
\* raw channel, the sequence V of that channel in the same order.
C3_RoundTrip ==
    WellFormedLog(variant, log) =>
        /\ pc # "failed"
        /\ pc = "returned" =>
              \A c \in Range(RawChannels(variant)) :
                  /\ ScoresKey(variant, c) \in DOMAIN result_dict
                  /\ result_dict[ScoresKey(variant, c)]
                        = ChannelValues(variant, log, c, Len(log))

\* a well-formed log of two frames with a negative value has been parsed
C3_Witness ==
    /\ pc = "returned"
    /\ WellFormedLog(variant, log)
    /\ \E c \in Range(RawChannels(variant)) :
          /\ Len(result_dict[ScoresKey(variant, c)]) = 2
          /\ result_dict[ScoresKey(variant, c)][2][1] < 0
          /\ result_dict[ScoresKey(variant, c)][1] # result_dict[ScoresKey(variant, c)][2]

(***************************************************************************)
(* C4: lines that match no pattern.                                        *)
(***************************************************************************)
StripJunk(lg) == SelectSeq(lg, LAMBDA l : l.kind # "junk")

\* C4: a line that matches no data pattern and no header pattern of the variant
\* changes no channel sequence, no expected-next-index and no section mode,
\* wherever in the log it stands; and a log with such lines, whose other lines
\* alone yield a Result, yields exactly that Result.
C4_UnmatchedLines ==
    /\ pc = "parse" =>
          \A j \in JunkLines(variant) : LineStep(variant, Cur, Text(j)) = Cur
    /\ (Final /\ StripJunk(log) # log) =>
          LET o == Outcome(variant, StripJunk(log))
          IN  o.error = "none" => (pc # "failed" /\ result_dict = o.result)

\* a Result has been produced from a log with an unmatched line between two lines
C4_Witness ==
    /\ Final
    /\ pc # "failed"
    /\ \E p \in 2..(Len(log) - 1) : log[p].kind = "junk"

(***************************************************************************)
(* C6: section attribution (Moment).                                       *)
(***************************************************************************)
C6_ExampleLog ==
    <<Header("ref"), Data("1stmoment", 0, 20), Data("2ndmoment", 0, 50),
      Header("dis"), Data("1stmoment", 0, 30), Data("2ndmoment", 0, 100)>>

\* C6: in the Moment variant, after every line the mode is the section of the most
\* recent header line, and each raw channel holds the values of the data lines
\* read so far whose most recent header and tag select it, in file order; the log
\* "=== ref: ===", "1stmoment: 0 2.0", "2ndmoment: 0 5.0", "=== dis: ===",
\* "1stmoment: 0 3.0", "2ndmoment: 0 10.0" yields ref1st = [2.0], ref2nd = [5.0],
\* dis1st = [3.0], dis2nd = [10.0].
C6_SectionAttribution ==
    variant = "Moment" =>
        /\ ref_or_dis = SectionAt(log, pos)
        /\ \A c \in Range(RawChannels("Moment")) :
              atom_feature_scores_dict[c] = ChannelValues("Moment", log, c, pos - 1)
        /\ (log = C6_ExampleLog /\ Final) =>
              /\ pc = "returned"
              /\ atom_feature_scores_dict["ref1st"] = <<<<2, 1>>>>
              /\ atom_feature_scores_dict["ref2nd"] = <<<<5, 1>>>>
              /\ atom_feature_scores_dict["dis1st"] = <<<<3, 1>>>>
              /\ atom_feature_scores_dict["dis2nd"] = <<<<10, 1>>>>

\* a Result has been produced from a log in which a 'ref' header follows a 'dis'
\* header, with data lines after each
C6_Witness ==
    /\ variant = "Moment"
    /\ pc = "returned"
    /\ \E p, q \in 1..(Len(log) - 1) :
          /\ p < q
          /\ log[p] = Header("dis") /\ IsData(log[p + 1])
          /\ log[q] = Header("ref") /\ IsData(log[q + 1])

(***************************************************************************)
(* C7: a data line before any section header (Moment).                     *)
(***************************************************************************)
UnsetDataLines(lg) == {p \in 1..Len(lg) : IsData(lg[p]) /\ SectionAt(lg, p) = "None"}

\* C7: in the Moment variant, when a "1stmoment" or "2ndmoment" data line stands
\* before any section header, the invocation fails at the first such line with
\* the mode assertion; no value is ever appended to any channel and no Result is
\* returned.
C7_UnsetMode ==
    (variant = "Moment" /\ UnsetDataLines(log) # {}) =>
        /\ result_dict = NoResult
        /\ \A c \in DOMAIN atom_feature_scores_dict : atom_feature_scores_dict[c] = <<>>
        /\ pos <= SetMin(UnsetDataLines(log))
        /\ pc \in {"parse", "failed"}
        /\ Final => (error = "ModeAssertion" /\ pos = SetMin(UnsetDataLines(log)))

\* the mode assertion has fired on a data line that is not the first line of the log
C7_Witness ==
    /\ variant = "Moment"
    /\ pc = "failed"
    /\ error = "ModeAssertion"
    /\ pos >= 2
    /\ pos = SetMin(UnsetDataLines(log))

(***************************************************************************)
(* C9: the variances (Moment).                                             *)
(***************************************************************************)
\* var = m2 - m1 * m1 on fractions, by cross-multiplication
IsVariance(var, m1, m2) ==
    /\ var[2] > 0
    /\ var[1] * m1[2] * m1[2] * m2[2]
          = (m2[1] * m1[2] * m1[2] - m1[1] * m1[1] * m2[2]) * var[2]

\* C9: in every Result of the Moment variant, refvar[i] = ref2nd[i] - ref1st[i]^2
\* and disvar[i] = dis2nd[i] - dis1st[i]^2 for every frame i, each from the pair of
\* its own stream; first moment [2], second moment [5] give the variance [1].
C9_Variance ==
    (variant = "Moment" /\ pc = "returned") =>
        \A s \in {"ref", "dis"} :
            LET m1 == result_dict[ScoresKey("Moment", Concat(s, "1st"))]
                m2 == result_dict[ScoresKey("Moment", Concat(s, "2nd"))]
                var == result_dict[ScoresKey("Moment", IF s = "ref" THEN "refvar" ELSE "disvar")]
            IN  /\ Len(var) = Len(m1)
                /\ Len(var) = Len(m2)
                /\ \A i \in 1..Len(var) : IsVariance(var[i], m1[i], m2[i])
                /\ (m1 = <<<<2, 1>>>> /\ m2 = <<<<5, 1>>>>) => var = <<<<1, 1>>>>

\* a Result with first moment [2], second moment [5] and variance [1] for the
\* reference stream, and other values for the distorted stream
C9_Witness ==
    /\ variant = "Moment"
    /\ pc = "returned"
    /\ result_dict[ScoresKey("Moment", "ref1st")] = <<<<2, 1>>>>
    /\ result_dict[ScoresKey("Moment", "ref2nd")] = <<<<5, 1>>>>
    /\ result_dict[ScoresKey("Moment", "refvar")] = <<<<1, 1>>>>
    /\ result_dict[ScoresKey("Moment", "dis1st")] # <<<<2, 1>>>>

(***************************************************************************)
(* The VMAF extractor on logs of up to MaxPostFrames frames, whose adm_num *)
(* and adm_den values are drawn frame by frame from PostPairs.             *)
(***************************************************************************)
\* <<adm_num, adm_den>> of one frame, in tenths
PostPairs ==
    {<<0, 0>>, <<100, 100>>, <<10000, 10000>>, <<0, 10000>>, <<0, -10000>>,
     <<-10000, -10000>>}

PostLogs ==
    {WellFormed("VMAF", "channels",
                [k \in 1..9 |-> [i \in 1..Len(q) |->
                    IF k = 7 THEN q[i][1]
                    ELSE IF k = 8 THEN q[i][2]
                    ELSE PlanVal("example", "VMAF", k, i - 1)]]) :
        q \in SeqsUpTo(PostPairs, MaxPostFrames) \ {<<>>}}

InitPost ==
    /\ variant = "VMAF"
    /\ log \in PostLogs
    /\ pos = 1
    /\ atom_feature_scores_dict = InitParse(variant).scores
    /\ atom_feature_idx_dict = InitParse(variant).idx
    /\ ref_or_dis = "None"
    /\ pc = "parse"
    /\ error = "none"
    /\ result_dict = NoResult
    /\ key_type = <<>>
    /\ key_feature = <<>>
    /\ key_out = <<>>

NextPost ==
    \/ VmafParseLine
    \/ VmafAssemble
    \/ PostProcessResult

SpecPost == InitPost /\ [][NextPost]_vars

(***************************************************************************)
(* C8: the ratio transform.                                                *)
(***************************************************************************)
\* r = (x + 1000) / (y + 1000) on fractions, by cross-multiplication; with a zero
\* denominator r is the IEEE quotient (inf, -inf or nan)
IsAdmRatio(r, x, y) ==
    LET n == (x[1] + 1000 * x[2]) * y[2]
        d == x[2] * (y[1] + 1000 * y[2])
    IN  IF d # 0
        THEN r[2] > 0 /\ r[1] * d = n * r[2]
        ELSE r[2] = 0 /\ r[1] = (IF n > 0 THEN 1 ELSE IF n < 0 THEN -1 ELSE 0)

\* C8: after _post_process_result the adm sequence has the length of adm_num and
\* adm_den and adm[i] = (adm_num[i] + 1000) / (adm_den[i] + 1000) for every frame i;
\* num = [0, 10, 1000], den = [0, 10, 1000] give [1, 1, 1], and num = [0],
\* den = [1000] give [1/2].
C8_RatioTransform ==
    pc = "done" =>
        LET num == result_dict[ScoresKey("VMAF", "adm_num")]
            den == result_dict[ScoresKey("VMAF", "adm_den")]
            adm == result_dict[ScoresKey("VMAF", "adm")]
        IN  /\ Len(adm) = Len(num)
            /\ Len(adm) = Len(den)
            /\ \A i \in 1..Len(adm) : IsAdmRatio(adm[i], num[i], den[i])
            /\ (num = <<<<0, 1>>, <<10, 1>>, <<1000, 1>>>> /\ den = num) =>
                  adm = <<<<1, 1>>, <<1, 1>>, <<1, 1>>>>
            /\ (num = <<<<0, 1>>>> /\ den = <<<<1000, 1>>>>) => adm = <<<<1, 2>>>>

\* the post-processed Result of num = [0, 10, 1000], den = [0, 10, 1000]
C8_Witness ==
    /\ pc = "done"
    /\ result_dict[ScoresKey("VMAF", "adm_num")] = <<<<0, 1>>, <<10, 1>>, <<1000, 1>>>>
    /\ result_dict[ScoresKey("VMAF", "adm_den")] = <<<<0, 1>>, <<10, 1>>, <<1000, 1>>>>
    /\ result_dict[ScoresKey("VMAF", "adm")] = <<<<1, 1>>, <<1, 1>>, <<1, 1>>>>

(***************************************************************************)
(* C10: division by zero in the ratio transform.                           *)
(***************************************************************************)
\* C10 as stated: when adm_den[i] + ADM_CONSTANT is 0 for some frame the
\* post-processing fails, and no Result it returns holds a non-finite adm value.
C10_DivisionByZeroDetected ==
    pc = "done" =>
        /\ \A i \in 1..Len(result_dict[ScoresKey("VMAF", "adm_den")]) :
              result_dict[ScoresKey("VMAF", "adm_den")][i] # <<-ADM_CONSTANT, 1>>
        /\ \A i \in 1..Len(result_dict[ScoresKey("VMAF", "adm")]) :
              IsFinite(result_dict[ScoresKey("VMAF", "adm")][i])

(***************************************************************************)
(* get_scores_key and get_score_key on type and feature names: the names   *)
(* of the source, and every name of at most MaxNameLen characters over     *)
(* NameChars.                                                              *)
(***************************************************************************)
NameChars == {"a", "b", "_"}

DeclaredTypes == {Chars(TYPE(v)) : v \in Variants}

DeclaredFeatures == {Chars(f) : f \in UNION {Range(ATOM_FEATURES(v)) : v \in Variants}}

\* the (TYPE, atom feature) pairs of the three classes
DeclaredPairs ==
    UNION {{<<Chars(TYPE(v)), Chars(f)>> : f \in Range(ATOM_FEATURES(v))} : v \in Variants}

TypeNames == DeclaredTypes \cup (SeqsUpTo(NameChars, MaxNameLen) \ {<<>>})

FeatureNames == DeclaredFeatures \cup (SeqsUpTo(NameChars, MaxNameLen) \ {<<>>})

InitKeys ==
    /\ variant = "VMAF"
    /\ log = <<>>
    /\ pos = 1
    /\ atom_feature_scores_dict = InitParse(variant).scores
    /\ atom_feature_idx_dict = InitParse(variant).idx
    /\ ref_or_dis = "None"
    /\ pc = "key"
    /\ error = "none"
    /\ result_dict = NoResult
    /\ key_type \in TypeNames
    /\ key_feature \in FeatureNames
    /\ key_out = <<>>

\* lines 34-37
GetScoresKey ==
    /\ pc = "key"
    /\ key_out' = get_scores_key(key_type, key_feature)
    /\ pc' = "scores_key"
    /\ UNCHANGED <<variant, log, pos, atom_feature_scores_dict, atom_feature_idx_dict,
                   ref_or_dis, error, result_dict, key_type, key_feature>>

\* lines 39-42
GetScoreKey ==
    /\ pc = "key"
    /\ key_out' = get_score_key(key_type, key_feature)
    /\ pc' = "score_key"
    /\ UNCHANGED <<variant, log, pos, atom_feature_scores_dict, atom_feature_idx_dict,
                   ref_or_dis, error, result_dict, key_type, key_feature>>

NextKeys == GetScoresKey \/ GetScoreKey

SpecKeys == InitKeys /\ [][NextKeys]_vars

(***************************************************************************)
(* C5: score-key naming.                                                   *)
(***************************************************************************)
ScoresSuffix == <<"_", "s", "c", "o", "r", "e", "s">>

ScoreSuffix == <<"_", "s", "c", "o", "r", "e">>

\* C5 as stated: get_scores_key returns "{TYPE}_{feature}_scores", get_score_key
\* returns "{TYPE}_{feature}_score", and no other (type, feature) pair, whatever
\* the names, yields the per-frame key of this pair.
C5_KeyNamingAsStated ==
    /\ pc = "scores_key" =>
          /\ key_out = key_type \o <<"_">> \o key_feature \o ScoresSuffix
          /\ \A t \in TypeNames, f \in FeatureNames :
                <<t, f>> # <<key_type, key_feature>> => get_scores_key(t, f) # key_out
    /\ pc = "score_key" =>
          key_out = key_type \o <<"_">> \o key_feature \o ScoreSuffix

\* C5 amended: get_scores_key returns "{TYPE}_{feature}_scores", get_score_key
\* returns "{TYPE}_{feature}_score"; no other pair with the same type or with the
\* same feature yields the per-frame key of this pair, and no two different
\* (TYPE, atom feature) pairs declared by the three extractors share a per-frame
\* key.  (Pairs of arbitrary names with underscores can share one.)
C5_KeyNaming ==
    /\ pc = "scores_key" =>
          /\ key_out = key_type \o <<"_">> \o key_feature \o ScoresSuffix
          /\ \A f \in FeatureNames :
                f # key_feature => get_scores_key(key_type, f) # key_out
          /\ \A t \in TypeNames :
                t # key_type => get_scores_key(t, key_feature) # key_out
          /\ <<key_type, key_feature>> \in DeclaredPairs =>
                \A q \in DeclaredPairs :
                    q # <<key_type, key_feature>> => get_scores_key(q[1], q[2]) # key_out
    /\ pc = "score_key" =>
          key_out = key_type \o <<"_">> \o key_feature \o ScoreSuffix

\* the per-frame key of a declared pair whose names both hold an underscore
C5_Witness ==
    /\ pc = "scores_key"
    /\ key_type = Chars("VMAF_feature")
    /\ key_feature = Chars("adm_num")
    /\ Len(key_out) = 27

(***************************************************************************)
(* C11: the order of the length assertions.                                *)
(***************************************************************************)
\* the loop over the lines has ended without an exception and the invocation is over
ParsedToEnd == Final /\ pos > Len(log)

\* some declared channel after the first has another length than the first
LengthDiffers(v, scores) ==
    \E k \in 2..Len(ATOM_FEATURES(v)) :
        Len(scores[ATOM_FEATURES(v)[k]]) # Len(scores[ATOM_FEATURES(v)[1]])

\* C11: after a parse that raised no exception, the invocation fails with the
\* empty-result assertion exactly when the sequence of the first declared channel is
\* empty, whatever the other channels hold; it fails with the length assertion
\* exactly when the first declared channel is non-empty and some other declared
\* channel has another length; otherwise a Result is produced.
C11_ValidationOrder ==
    ParsedToEnd =>
        LET first == atom_feature_scores_dict[ATOM_FEATURES(variant)[1]]
            differs == LengthDiffers(variant, atom_feature_scores_dict)
        IN  /\ (pc = "failed" /\ error = "EmptyAssertion") <=> (first = <<>>)
            /\ (pc = "failed" /\ error = "LengthAssertion") <=> (first # <<>> /\ differs)
            /\ (pc # "failed" /\ result_dict # NoResult) <=> (first # <<>> /\ ~differs)

\* the empty-result assertion has fired although another channel holds a value of
\* other length than the first
C11_Witness ==
    /\ ParsedToEnd
    /\ pc = "failed"
    /\ error = "EmptyAssertion"
    /\ LengthDiffers(variant, atom_feature_scores_dict)

(***************************************************************************)
(* C12: what the empty-result assertion means.                             *)
(***************************************************************************)
\* the data lines of the log that are attributed to some declared channel
MatchedLines(v, lg) == {p \in 1..Len(lg) : LineChannel(v, lg, p) # ""}

\* C12 as stated: whenever the invocation fails with the empty-result assertion, no
\* data line of the log matched any declared channel: every channel is empty.
C12_EmptyMeansNothingMatchedAsStated ==
    (pc = "failed" /\ error = "EmptyAssertion") =>
        /\ MatchedLines(variant, log) = {}
        /\ \A c \in DOMAIN atom_feature_scores_dict : atom_feature_scores_dict[c] = <<>>

\* C12 amended: whenever the invocation fails with the empty-result assertion, no
\* data line of the log matched the first declared channel (vif, psnr, ref1st),
\* whose sequence is empty; the other channels may hold values.  In the PSNR
\* variant, which declares one channel, nothing matched.
C12_EmptyMeansFirstChannelEmpty ==
    (pc = "failed" /\ error = "EmptyAssertion") =>
        /\ \A p \in 1..Len(log) :
              LineChannel(variant, log, p) # ATOM_FEATURES(variant)[1]
        /\ atom_feature_scores_dict[ATOM_FEATURES(variant)[1]] = <<>>
        /\ variant = "PSNR" => MatchedLines(variant, log) = {}

\* the empty-result assertion has fired on a log with data lines that matched other
\* channels than the first
C12_Witness ==
    /\ pc = "failed"
    /\ error = "EmptyAssertion"
    /\ Cardinality(MatchedLines(variant, log)) >= 2
    /\ \E c \in DOMAIN atom_feature_scores_dict : atom_feature_scores_dict[c] # <<>>

(***************************************************************************)
(* C13: the closed set of outcomes.                                        *)
(***************************************************************************)
\* the assertions of the source: the index assertion (corrupt log), the mode
\* assertion on a data line before any section header (the grammar violation of
\* the Moment variant), the empty-result assertion and the length assertion
AssertionErrors == {"IndexAssertion", "ModeAssertion", "EmptyAssertion", "LengthAssertion"}

\* C13 as stated: every invocation ends either with a Result or with exactly one of
\* the declared errors, whatever string of digits, dots and minus signs stands in
\* the value field of a line that matches a data pattern; no other failure occurs.
C13_ClosedOutcomes ==
    Final =>
        \/ pc # "failed" /\ error = "none" /\ result_dict # NoResult
        \/ pc = "failed" /\ error \in AssertionErrors /\ result_dict = NoResult

(***************************************************************************)
(* C14: derived channels and the length assertions.                        *)
(***************************************************************************)
\* the length assertions have been made and have held
LengthsAsserted == pc \in {"returned", "done"} /\ result_dict # NoResult

\* C14 as stated: a derived channel is computed only after the non-empty and
\* equal-length assertions on the raw channels have held: the Moment refvar and
\* disvar hold no value, and the VMAF adm ratio has not replaced the adm channel,
\* in any state in which those assertions have not yet been made or have failed.
C14_DerivedAfterValidation ==
    /\ (variant = "Moment" /\ \E c \in {"refvar", "disvar"} :
                                  atom_feature_scores_dict[c] # <<>>) => LengthsAsserted
    /\ (variant = "VMAF" /\ pc = "done") =>
          /\ LengthsAsserted
          /\ AssertLengths("VMAF", atom_feature_scores_dict) = "none"

(***************************************************************************)
(* Log files that were appended to twice, or cut.  The producer appends    *)
(* its output to the log file (">>", lines 64-68, 153-156, 218-223), so a  *)
(* second run leaves the text twice; a producer that stops early leaves a  *)
(* prefix of the text.                                                     *)
(***************************************************************************)
\* the unmatched lines of these logs: an empty line and an echoed command
EchoLines(v) ==
    {j \in JunkLines(v) : Len(j.text) = 0 \/ (Len(j.text) >= 2 /\ j.text[1] = "v" /\ j.text[2] = "m")}

\* the logs of Logs(v) that yield a Result, by variant
ResultTexts ==
    [v \in Variants |->
        {T \in Logs(v) : /\ \A p \in 1..Len(T) : T[p].kind = "junk" => T[p] \in EchoLines(v)
                         /\ Outcome(v, T).error = "none"}]

\* the Result of each of them
ResultOf == [v \in Variants |-> [T \in ResultTexts[v] |-> Outcome(v, T).result]]

\* lg is T cut after a proper prefix of its lines, a data line being lost
IsCutOf(lg, T) ==
    /\ Len(lg) < Len(T)
    /\ lg = SubSeq(T, 1, Len(lg))
    /\ \E p \in (Len(lg) + 1)..Len(T) : IsData(T[p])

Cuts(T) == {SubSeq(T, 1, n) : n \in {m \in 0..(Len(T) - 1) : IsCutOf(SubSeq(T, 1, m), T)}}

DamagedLogs(v) ==
    ResultTexts[v]
    \cup {T \o T : T \in ResultTexts[v]}
    \cup UNION {Cuts(T) : T \in ResultTexts[v]}

InitDamaged ==
    /\ variant \in Variants
    /\ log \in DamagedLogs(variant)
    /\ pos = 1
    /\ atom_feature_scores_dict = InitParse(variant).scores
    /\ atom_feature_idx_dict = InitParse(variant).idx
    /\ ref_or_dis = "None"
    /\ pc = "parse"
    /\ error = "none"
    /\ result_dict = NoResult
    /\ key_type = <<>>
    /\ key_feature = <<>>
    /\ key_out = <<>>

SpecDamaged == InitDamaged /\ [][Next]_vars

(***************************************************************************)
(* C15: a log appended to twice.                                           *)
(***************************************************************************)
\* the log is a text that yields a Result, followed by a second copy of it
IsDoubled(v, lg) ==
    /\ Len(lg) > 0
    /\ Len(lg) % 2 = 0
    /\ SubSeq(lg, 1, Len(lg) \div 2) = SubSeq(lg, (Len(lg) \div 2) + 1, Len(lg))
    /\ SubSeq(lg, 1, Len(lg) \div 2) \in ResultTexts[v]

\* the first data line of the second copy
SecondCopyFirstData(lg) ==
    SetMin({p \in ((Len(lg) \div 2) + 1)..Len(lg) : IsData(lg[p])})

\* C15: for every variant and every log text T that yields a Result, the text T
\* followed by a second copy of T yields no Result: the parse reads up to the first
\* data line of the second copy and fails there with the index assertion.
C15_DoubledRejected ==
    IsDoubled(variant, log) =>
        /\ result_dict = NoResult
        /\ pc \in {"parse", "failed"}
        /\ pos <= SecondCopyFirstData(log)
        /\ Final => (error = "IndexAssertion" /\ pos = SecondCopyFirstData(log))

\* the index assertion has fired in the second copy of a text of two frames, on a
\* data line that is not the first line of the copy
C15_Witness ==
    /\ IsDoubled(variant, log)
    /\ pc = "failed"
    /\ error = "IndexAssertion"
    /\ pos > (Len(log) \div 2) + 1
    /\ \E c \in DOMAIN atom_feature_scores_dict : Len(atom_feature_scores_dict[c]) = 2

(***************************************************************************)
(* C16: a cut log.                                                         *)
(***************************************************************************)
\* the texts with a Result of which the log is a cut
CutSources(v, lg) == {T \in ResultTexts[v] : IsCutOf(lg, T)}

\* the lines of the log hold the same number of values, at least one, for every
\* raw channel: the cut fell between two frames
EvenChannels(v, lg) ==
    \E L \in 1..Len(lg) :
        \A c \in Range(RawChannels(v)) : Len(ChannelLines(v, lg, c, Len(lg))) = L

IsProperPrefix(a, b) == Len(a) < Len(b) /\ a = SubSeq(b, 1, Len(a))

\* C16 as stated: for every log text T that yields a Result, every log obtained by
\* cutting T after a proper prefix of its lines, at least one data line being
\* removed, fails with the index, the empty-result or the length assertion and
\* returns no Result.
C16_TruncatedRejectedAsStated ==
    (Final /\ CutSources(variant, log) # {}) =>
        /\ pc = "failed"
        /\ error \in {"IndexAssertion", "EmptyAssertion", "LengthAssertion"}
        /\ result_dict = NoResult

\* C16 amended: for every log text T that yields a Result, a log obtained by
\* cutting T after a proper prefix of its lines, at least one data line being
\* removed, fails with the empty-result or the length assertion, unless the lines
\* kept hold the same number L' >= 1 of values for every raw channel; in that case
\* a Result is returned, whose sequences are the first L' values of those of the
\* Result of T.
C16_TruncatedRejectedOffFrame ==
    (Final /\ CutSources(variant, log) # {}) =>
        /\ EvenChannels(variant, log) <=> pc # "failed"
        /\ pc = "failed" =>
              /\ error \in {"EmptyAssertion", "LengthAssertion"}
              /\ result_dict = NoResult
        /\ pc # "failed" =>
              \A T \in CutSources(variant, log) :
                  /\ DOMAIN result_dict = DOMAIN ResultOf[variant][T]
                  /\ \A k \in DOMAIN result_dict :
                        IsProperPrefix(result_dict[k], ResultOf[variant][T][k])

\* the length assertion has refused a text of two frames that was cut inside its
\* second frame
C16_Witness ==
    /\ CutSources(variant, log) # {}
    /\ pc = "failed"
    /\ error = "LengthAssertion"
    /\ \E c \in DOMAIN atom_feature_scores_dict : Len(atom_feature_scores_dict[c]) = 2
    /\ \E c \in DOMAIN atom_feature_scores_dict : Len(atom_feature_scores_dict[c]) = 1

(***************************************************************************)
(* C17: unambiguous matching.                                              *)
(***************************************************************************)
\* the patterns of the variant that match a line: the data pattern of each VMAF
\* atom feature, the PSNR data pattern, the two headers and the two data patterns
\* of Moment
MatchingPatterns(v, line) ==
    CASE v = "VMAF" ->
            {f \in Range(ATOM_FEATURES("VMAF")) : re_match_data(Chars(f), line).ok}
      [] v = "PSNR" ->
            {f \in {"psnr"} : re_match_data(Chars(f), line).ok}
      [] v = "Moment" ->
            {h \in {"ref", "dis"} : re_match_header(h, line)}
            \cup {t \in {"1stmoment", "2ndmoment"} : re_match_data(Chars(t), line).ok}

RECURSIVE SumLen(_, _, _)
SumLen(scores, chans, k) ==
    IF k > Len(chans) THEN 0 ELSE Len(scores[chans[k]]) + SumLen(scores, chans, k + 1)

\* the number of values held by all channels together
TotalValues == SumLen(atom_feature_scores_dict, ATOM_FEATURES(variant), 1)

\* the loop over the lines is running, or an exception has ended it
InLoop == pc = "parse" \/ (pc = "failed" /\ pos <= Len(log))

\* C17: every line appends at most one value to at most one channel.  While the
\* lines are read, the channels together hold exactly one value for each data line
\* read so far and none for any other line (a section header is never counted as
\* a data line); the line to be read next matches at most one pattern of the
\* variant: no VMAF line matches the patterns of two atom features ('vif' and
\* 'vif_num', 'adm' and 'adm_den', 'ansnr' and 'anpsnr'), no Moment line matches a
\* header and a data pattern or both data patterns; and reading it leaves every
\* channel but one as it is and adds at most one value to that one.
C17_UnambiguousMatching ==
    InLoop =>
        /\ TotalValues = Cardinality({p \in 1..(pos - 1) : IsData(log[p])})
        /\ pos <= Len(log) =>
              LET line == Text(log[pos])
                  st == LineStep(variant, Cur, line)
                  grown == {c \in DOMAIN st.scores : st.scores[c] # atom_feature_scores_dict[c]}
              IN  /\ Cardinality(MatchingPatterns(variant, line)) <= 1
                  /\ Cardinality(grown) <= 1
                  /\ \A c \in grown :
                        /\ Len(st.scores[c]) = Len(atom_feature_scores_dict[c]) + 1
                        /\ IsData(log[pos])

\* the line 'adm_den: 1 ...' has been read, after the 'adm' lines of two frames: it
\* has added its value to adm_den and none to adm
C17_Witness ==
    /\ variant = "VMAF"
    /\ pc = "parse"
    /\ pos > 1
    /\ IsData(log[pos - 1])
    /\ log[pos - 1].tag = "adm_den"
    /\ log[pos - 1].idx = 1
    /\ Len(atom_feature_scores_dict["adm_den"]) = 2
    /\ Len(atom_feature_scores_dict["adm"]) = 2

(***************************************************************************)
(* C18: what the VMAF post-processing leaves alone.                        *)
(***************************************************************************)
\* the score keys of the nine VMAF atom features
VmafKeys == {ScoresKey("VMAF", f) : f \in Range(ATOM_FEATURES("VMAF"))}

\* C18: _post_process_result replaces only the sequence under the key
\* 'VMAF_feature_adm_scores': before it the Result holds, under the nine keys, the
\* nine parsed sequences; after it the keys are the same nine, the sequences under
\* the other eight keys (adm_num and adm_den among them) are still the parsed
\* ones, and the adm sequence has the same length L as before.
C18_PostProcessFrame ==
    /\ (variant = "VMAF" /\ pc = "returned") =>
          /\ DOMAIN result_dict = VmafKeys
          /\ \A f \in Range(ATOM_FEATURES("VMAF")) :
                result_dict[ScoresKey("VMAF", f)] = atom_feature_scores_dict[f]
    /\ pc = "done" =>
          /\ DOMAIN result_dict = VmafKeys
          /\ \A f \in Range(ATOM_FEATURES("VMAF")) \ {"adm"} :
                result_dict[ScoresKey("VMAF", f)] = atom_feature_scores_dict[f]
          /\ Len(result_dict[ScoresKey("VMAF", "adm")]) = Len(atom_feature_scores_dict["adm"])

\* a Result of three frames whose adm sequence has been replaced by other values,
\* with adm_num and adm_den of different values
C18_Witness ==
    /\ pc = "done"
    /\ Len(result_dict[ScoresKey("VMAF", "adm")]) = 3
    /\ result_dict[ScoresKey("VMAF", "adm")] # atom_feature_scores_dict["adm"]
    /\ result_dict[ScoresKey("VMAF", "adm_num")] # result_dict[ScoresKey("VMAF", "adm_den")]

(***************************************************************************)
(* C19: channel independence (VMAF).                                       *)
(***************************************************************************)
\* the data lines of a VMAF log, channel after channel in the order of
\* ATOM_FEATURES, the lines of each channel in their file order: the same for any
\* two logs that hold the same data lines per channel
RECURSIVE ByChannel(_, _)
ByChannel(lg, k) ==
    IF k > Len(ATOM_FEATURES("VMAF")) THEN <<>>
    ELSE SelectSeq(lg, LAMBDA l : IsData(l) /\ l.tag = ATOM_FEATURES("VMAF")[k])
             \o ByChannel(lg, k + 1)

\* C19: in the VMAF variant the order of the lines matters within a channel only.
\* A log has the outcome of the log that holds its data lines sorted by channel
\* (the lines of each channel in the same relative order): either both yield the
\* same Result or both fail.  Hence two logs that hold the same data lines for
\* every channel in the same relative order, interleaved differently, have the
\* same outcome.
C19_ChannelIndependence ==
    (variant = "VMAF" /\ Final) =>
        LET o == Outcome("VMAF", ByChannel(log, 1))
        IN  /\ (pc = "failed") <=> (o.error # "none")
            /\ pc = "done" => result_dict = o.result

\* a Result has been produced from a log of two frames written frame by frame, in
\* which the lines of the channels alternate
C19_Witness ==
    /\ variant = "VMAF"
    /\ pc = "done"
    /\ Len(log) >= 18
    /\ ByChannel(log, 1) # log
    /\ IsData(log[1]) /\ IsData(log[2]) /\ log[1].tag # log[2].tag
    /\ Len(result_dict[ScoresKey("VMAF", "vif")]) = 2

(***************************************************************************)
(* C20: the accumulators.                                                  *)
(***************************************************************************)
\* the value field of a data line, as written
ValueText(l) == IF l.kind = "data" THEN Fmt(l.val) ELSE l.text

\* C20: while the lines are read, after each line, the expected-next-index of every
\* channel equals the number of values accumulated for it, and the k-th value of a
\* channel (k from 0) is the value of the k-th line read for that channel, which
\* carries the index k; in the Moment variant a section-header line sets the mode
\* and leaves every counter and every sequence as it is.
C20_AccumulatorInvariant ==
    InLoop =>
        /\ \A c \in DOMAIN atom_feature_scores_dict :
              atom_feature_idx_dict[c] = Len(atom_feature_scores_dict[c])
        /\ LET read == ReadLines(variant, log, pos - 1)
           IN  \A c \in Range(RawChannels(variant)) :
                   LET ls == SelectSeq(read, LAMBDA e : e.chan = c)
                   IN  /\ Len(ls) = Len(atom_feature_scores_dict[c])
                       /\ \A k \in 1..Len(ls) :
                             /\ ls[k].line.idx = k - 1
                             /\ atom_feature_scores_dict[c][k]
                                   = float(ValueText(ls[k].line)).val
        /\ (variant = "Moment" /\ pc = "parse" /\ pos <= Len(log) /\ log[pos].kind = "header") =>
              LineStep("Moment", Cur, Text(log[pos])) = [Cur EXCEPT !.mode = log[pos].tag]
        /\ (variant = "Moment" /\ pos > 1 /\ log[pos - 1].kind = "header") =>
              ref_or_dis = log[pos - 1].tag

\* a second 'ref' header has been read after the lines of a first frame: the
\* counters and the sequences of the four raw channels stand at one value each
C20_Witness ==
    /\ variant = "Moment"
    /\ pc = "parse"
    /\ pos > 1
    /\ log[pos - 1] = Header("ref")
    /\ ref_or_dis = "ref"
    /\ \A c \in Range(RawChannels("Moment")) :
          atom_feature_idx_dict[c] = 1 /\ Len(atom_feature_scores_dict[c]) = 1

====
